---- MODULE Spec2Model ----
(***************************************************************************)
(* The model-training pipeline of scripts/model_training.py: load, split,  *)
(* feature selection, class balancing, training, evaluation and selection, *)
(* prediction export.  A row of the dataset is its position 1..n in the    *)
(* cleaned file; a DataFrame is the sequence of its rows.  The label of a  *)
(* row is fixed by the input: rows 1..nLegit are class 0, the rest class 1.*)
(***************************************************************************)
EXTENDS Integers, Sequences, FiniteSets, TLC

\* ------------------------------------------------------------------ bounds
MaxLegit == 36
MaxFraud == 8
MaxStream == 1
MaxRuns == 2

\* -------------------------------------------------------------- config.py
\* Ratios are held in percent: 0.2 is 20, 0.5 is 50.
TEST_SIZE == 20
RANDOM_STATE == 42
UNDERSAMPLING_RATIO == 50
\* the literal 0.5 of "int(target_majority_count * 0.5)"
SmoteTargetRatio == 50
\* StratifiedKFold(n_splits=5, ...)
CvSplits == 5
\* SMOTE(...) is built without k_neighbors: imblearn's default, 5
SmoteKNeighbors == 5

ModelOrder == <<"logistic_regression", "random_forest", "gradient_boosting">>
Models == {ModelOrder[i] : i \in 1..Len(ModelOrder)}
AucValues == <<90, 93, 95>>
StageOrder == <<"load", "split", "select", "balance", "train", "evaluate", "export">>
\* precision, recall and F1 of class 1, in percent
MetricValues == <<40, 60, 80>>

\* V_FEATURES = [f'V{i}' for i in range(1, 29)]
VCount == 28
V_FEATURES == [i \in 1..VCount |-> "V" \o ToString(i)]
TARGET == "Class"
\* The columns of creditcard.csv, and the columns preprocess_data appends
RawColumns == <<"Time">> \o V_FEATURES \o <<"Amount", TARGET>>
DerivedColumns ==
    <<"Hour_Sin", "Hour_Cos", "Amount_Log", "Amount_Scaled", "Amount_Outlier",
      "V_Sum", "V_Mean", "V_Std">>
CleanedColumns == RawColumns \o DerivedColumns

VARIABLES
    nLegit,        \* class-0 rows of the cleaned file
    nFraud,        \* class-1 rows of the cleaned file
    cleanedExists, \* CLEANED_DATA_FILE is on disk
    rawExists,     \* RAW_DATA_FILE is on disk
    columns,       \* the header of the cleaned file, in order
    rngStream,     \* the stream RandomState(RANDOM_STATE) yields: fixed, unknown
    aucTab,        \* how well each model family can score: fixed, unknown
    clock,         \* datetime.now()
    run,           \* number of the pipeline run in progress
    pc,            \* the stage main() is about to execute, or done / failed
    stagesRun,     \* the stages main() has started in this run, in order
    failedAt,      \* the stage that raised in this run, or "none"
    error,         \* the class of the exception that was raised, or "none"
    exitStatus,    \* how main() ended: "running", "returned" or "raised"
    surfaced,      \* the stage named to main()'s caller, or "none"
    df,            \* load_prepared_data's result
    xTrain, yTrain, xTest, yTest,   \* prepare_train_test_split's result
    testFile,      \* rows stored in TEST_DATA_FILE
    splitTest,     \* <<X_test, y_test>> as the split returned them
    selectedFeatures, \* preprocess_features' selected_features
    balancerArg,   \* the rows handle_imbalanced_data received
    xRes,          \* X_resampled after the undersampler (line 111)
    synth,         \* SMOTE's synthetic rows, each <<base, neighbour>>
    balanced,      \* handle_imbalanced_data returned
    attempted,     \* model names train_models started on, in order
    trained,       \* trained_models: names in insertion order
    failedFit,     \* the models whose cross-validation or fit raised
    trainLog,      \* the steps train_models and evaluate_models started, in order
    cvScores,      \* cv_scores.mean() of the models whose cross-validation ended
    evalRows,      \* <<X_test, y_test>> evaluate_models received
    results,       \* evaluate_models' results: name -> AUC
    report,        \* evaluate_models' results: name -> precision, recall, f1
    best,          \* best_model_name, or "none"
    modelInfo,     \* model_info.csv, or <<>>
    modelFile,     \* the model stored in MODEL_FILE, or "none"
    writtenBy,     \* the run that last wrote each file, 0 when it never was
    exported,      \* the prediction exports were written
    prev,          \* the artifacts of the previous run
    callee,        \* the operation called on a record collection, or "none"
    asScript,      \* data_cleaning runs as __main__ (upper_bound is bound)
    argRows,       \* the number of rows of the caller's collection
    argCols,       \* the columns of the caller's collection
    argHeld,       \* the columns the caller's collection had at the call
    outCols,       \* the columns of the returned collection
    importance,    \* model.feature_importances_, by position in the feature list
    ranking,       \* the feature positions in the order of the persisted table
    amount,        \* the Amount column of the dataset preprocess_data is handed
    vRow,          \* the components V1..V28 of one row of that dataset
    derived,       \* what preprocess_data derived from them, or <<>>
    config,        \* the values config.py assigns to its options
    used,          \* the value each stage of the pipeline works with, or <<>>
    exportLog,     \* the steps data_export.main() started, in order
    exportFeatures,\* export_for_sql's selected_features
    openConns,     \* the connections that were opened and not closed
    sqlCalls,      \* the sql_connector functions called so far, with their outcome
    probability,   \* the fraud_probability of one transaction, in percent
    riskScore      \* the Risk_Score export_for_power_bi gives it, or "none"

\* The files main() reads, the state of a single call, the state of a ranking
fileVars == <<rawExists, columns>>
callVars == <<callee, asScript, argRows, argCols, argHeld, outCols>>
rankVars == <<importance, ranking>>
\* The state of a feature derivation, of a configuration, of an export run,
\* of the database connections and of a risk binning
deriveVars == <<amount, vRow, derived>>
configVars == <<config, used>>
exportVars == <<exportLog, exportFeatures>>
sqlVars == <<openConns, sqlCalls>>
riskVars == <<probability, riskScore>>
sideVars == <<deriveVars, configVars, exportVars, sqlVars, riskVars>>

vars == <<nLegit, nFraud, cleanedExists, rngStream, aucTab, clock, run, pc,
          stagesRun, failedAt, df, xTrain, yTrain, xTest, yTest, testFile,
          splitTest, balancerArg, xRes, synth, balanced, attempted, trained,
          failedFit, evalRows, results, best, modelInfo, exported, prev,
          error, exitStatus, surfaced, selectedFeatures, report, modelFile,
          trainLog, cvScores, writtenBy,
          fileVars, callVars, rankVars, sideVars>>

\* ----------------------------------------------------------------- helpers
Range(s) == {s[i] : i \in 1..Len(s)}
NoDup(s) == \A i, j \in 1..Len(s) : s[i] = s[j] => i = j
Label(r) == IF r <= nLegit THEN 0 ELSE 1
Labels(x) == [i \in 1..Len(x) |-> Label(x[i])]
ClassRows(x, c) == SelectSeq(x, LAMBDA r : Label(r) = c)
Count(y, c) == Len(SelectSeq(y, LAMBDA l : l = c))
Reverse(s) == [i \in 1..Len(s) |-> s[Len(s) + 1 - i]]
Rotate(s, k) == [i \in 1..Len(s) |-> s[((i - 1 + k) % Len(s)) + 1]]

\* numpy's RandomState(seed).permutation: the order is a function of the
\* stream alone.  The streams differ by a rotation and a reversal.
Permutation(s, stream) ==
    IF Len(s) = 0 THEN s
    ELSE IF stream % 2 = 0 THEN Rotate(s, stream \div 2 + 1)
    ELSE Reverse(Rotate(s, stream \div 2))

\* The stream a RandomState built from `seed` yields: a function of the seed.
StreamOf(seed) == rngStream + seed

\* ------------------------------------------- prepare_train_test_split
\* random_state=RANDOM_STATE of train_test_split (left out, RandomState
\* seeds itself from the operating system: another stream on every run)
SplitStreamUnseeded == rngStream + clock
SplitStream == StreamOf(RANDOM_STATE)

\* _validate_shuffle_split: n_test = ceil(test_size * n_samples) and
\* n_train = n_samples - n_test (0.2 * n is exact enough in binary floating
\* point that the ceiling is the rational one for every n below 80).
NTest(n) == (TEST_SIZE * n + 99) \div 100
NTrain(n) == n - NTest(n)

ClassCount(c) == IF c = 0 THEN nLegit ELSE nFraud
ClassesPresent == {c \in {0, 1} : ClassCount(c) > 0}

\* The ValueErrors of train_test_split(..., stratify=target): an empty train
\* set, a class with a single member, fewer rows in a part than classes.
SplitRaises(n) ==
    \/ NTrain(n) = 0
    \/ \E c \in ClassesPresent : ClassCount(c) < 2
    \/ NTrain(n) < Cardinality(ClassesPresent)
    \/ NTest(n) < Cardinality(ClassesPresent)

\* _approximate_mode(class_counts, n_train, rng) for the two classes: the
\* floor of the proportional share, and the one row that may be left goes to
\* the class with the larger remainder (rng.choice among equal remainders).
ShareFloor(c, n) == (ClassCount(c) * NTrain(n)) \div n
ShareRem(c, n) == (ClassCount(c) * NTrain(n)) % n
ExtraClass(n, stream) ==
    IF ShareRem(0, n) > ShareRem(1, n) THEN 0
    ELSE IF ShareRem(1, n) > ShareRem(0, n) THEN 1
    ELSE stream % 2
TrainCountUnstratified(c, n, stream) ==
    IF c = 0 THEN IF NTrain(n) < nLegit THEN NTrain(n) ELSE nLegit
    ELSE NTrain(n) - (IF NTrain(n) < nLegit THEN NTrain(n) ELSE nLegit)
TrainCount(c, n, stream) ==
    ShareFloor(c, n)
    + (IF NTrain(n) - ShareFloor(0, n) - ShareFloor(1, n) > 0
          /\ ExtraClass(n, stream) = c THEN 1 ELSE 0)
\* class_counts_remaining = class_counts - n_i, all of it drawn for the test
TestCount(c, n, stream) == ClassCount(c) - TrainCount(c, n, stream)

\* perm_indices_class_i[n_i : n_i + t_i], the slice the test part takes
TestSliceFromStart(perm, nTrainC, nTestC) == SubSeq(perm, 1, nTestC)
TestSlice(perm, nTrainC, nTestC) == SubSeq(perm, nTrainC + 1, nTrainC + nTestC)

\* StratifiedShuffleSplit._iter_indices: each class is permuted, its first
\* n_i rows go to train and the next t_i to test; both parts are permuted.
SplitTrain(d, stream) ==
    LET n == Len(d)
        p0 == Permutation(ClassRows(d, 0), stream)
        p1 == Permutation(ClassRows(d, 1), stream)
    IN Permutation(SubSeq(p0, 1, TrainCount(0, n, stream))
                   \o SubSeq(p1, 1, TrainCount(1, n, stream)), stream)
SplitTest(d, stream) ==
    LET n == Len(d)
        p0 == Permutation(ClassRows(d, 0), stream)
        p1 == Permutation(ClassRows(d, 1), stream)
    IN Permutation(TestSlice(p0, TrainCount(0, n, stream), TestCount(0, n, stream))
                   \o TestSlice(p1, TrainCount(1, n, stream), TestCount(1, n, stream)),
                   stream)

\* ---------------------------------------------- handle_imbalanced_data
\* main() line 297: the balancer is handed the train partition
BalancerInputWholeData == df
BalancerInput == xTrain

\* target_majority_count = int(majority_class_count * UNDERSAMPLING_RATIO)
UnderTarget(m) == (m * UNDERSAMPLING_RATIO) \div 100
\* target_minority_count = int(target_majority_count * 0.5)
SmoteTargetRounded(t) == (t * SmoteTargetRatio + 50) \div 100
SmoteTarget(t) == (t * SmoteTargetRatio) \div 100

\* class_counts[0] and class_counts[1] raise KeyError for an absent label
CountsRaise(y) == Count(y, 0) = 0 \/ Count(y, 1) = 0

\* RandomUnderSampler(sampling_strategy={0: target, 1: minority}): for each
\* class, random_state.choice(range(count), size=n, replace=False), which is
\* the head of a permutation; class 0 first, then class 1.
UndersampleWithReplacement(x, y, stream) ==
    LET maj == Permutation(ClassRows(x, 0), stream)
        k == UnderTarget(Count(y, 0))
    IN [i \in 1..k |-> maj[(((i - 1) \div 2) % Len(maj)) + 1]]
       \o Permutation(ClassRows(x, 1), stream)
Undersample(x, y, stream) ==
    SubSeq(Permutation(ClassRows(x, 0), stream), 1, UnderTarget(Count(y, 0)))
    \o Permutation(ClassRows(x, 1), stream)

\* SMOTE(sampling_strategy={0: target_majority, 1: target_minority}) raises
\* ValueError when class 0 is absent from the undersampled data, when the
\* minority target is below the minority count, and, when rows are to be
\* synthesised, when the minority has no k_neighbors + 1 rows to query.
SmoteRaises(m, n) ==
    \/ UnderTarget(m) = 0
    \/ SmoteTarget(UnderTarget(m)) < n
    \/ SmoteTarget(UnderTarget(m)) > n /\ n <= SmoteKNeighbors

\* The synthetic rows: each interpolates a minority row of the undersampled
\* data and one of its nearest minority neighbours, both drawn by the stream.
Smote(res, m, n, stream) ==
    LET mino == ClassRows(res, 1)
        k == SmoteTarget(UnderTarget(m)) - n
    IN [i \in 1..k |-> <<mino[((i - 1 + stream) % Len(mino)) + 1],
                         mino[((i + stream) % Len(mino)) + 1]>>]

\* random_state=RANDOM_STATE of RandomUnderSampler and SMOTE
BalanceStream == StreamOf(RANDOM_STATE)

\* --------------------------------------------------- preprocess_features
\* col.startswith('V'), over the column names that occur in the files
StartsWithV(col) ==
    col \in {V_FEATURES[i] : i \in 1..Len(V_FEATURES)} \cup {"V_Sum", "V_Mean", "V_Std"}
ListedFeatures == {"Amount_Scaled", "Hour_Sin", "Hour_Cos", "V_Sum", "V_Mean", "V_Std"}
\* selected_features: the columns of X_train that pass the filter, in order
SelectedFeatures(cols) ==
    SelectSeq(cols, LAMBDA col : StartsWithV(col) \/ col \in ListedFeatures)
\* features = df.drop(columns=['Class'])
DropTarget(cols) == SelectSeq(cols, LAMBDA col : col # TARGET)

\* ------------------------------------------------------- train_models
\* StratifiedKFold(n_splits=5).split raises ValueError when n_splits is
\* greater than the number of members of every class.
CvRaises(nMaj, nMin) == nMaj < CvSplits /\ nMin < CvSplits
\* random_state=RANDOM_STATE of the three estimators and of StratifiedKFold
FitStream == StreamOf(RANDOM_STATE)

\* What the five folds score on average: a function of the model family, of
\* the balanced rows and of the stream, and another one than the test score.
CvScore(m, res, syn, stream) ==
    AucValues[((2 * aucTab[m] + Len(res) + Len(syn) + stream) % Len(AucValues)) + 1]

\* The body of the loop: cross_val_score, model.fit, joblib.dump
TrainStepsFitFirst == <<"fit", "cv", "dump">>
TrainSteps == <<"cv", "fit", "dump">>
\* The steps started when the first `whole` models went through the loop and
\* the next one, if any, raised in its step number `reached`
StepsOf(whole, reached) ==
    [j \in 1..(Len(TrainSteps) * whole) |->
        <<TrainSteps[((j - 1) % Len(TrainSteps)) + 1],
          ModelOrder[((j - 1) \div Len(TrainSteps)) + 1]>>]
    \o [j \in 1..reached |-> <<TrainSteps[j], ModelOrder[whole + 1]>>]

\* ----------------------------------------------------- evaluate_models
\* roc_auc_score raises ValueError when y_test holds a single class
AucRaises(y) == Count(y, 0) = 0 \/ Count(y, 1) = 0

\* What the fitted model scores on the test rows: a function of the rows it
\* was fitted on, the rows it is scored on and the stream of its fit.
Fingerprint(res, syn, test) ==
    Len(res) + Len(syn) + (IF Len(test) > 0 THEN test[1] ELSE 0)
Score(m, res, syn, test, stream) ==
    AucValues[((aucTab[m] + Fingerprint(res, syn, test) + stream) % Len(AucValues)) + 1]

\* report['1']: precision, recall and f1-score of the fitted model on the
\* test rows, functions of the same things as its AUC
Metric(m, k, res, syn, test, stream) ==
    MetricValues[((aucTab[m] + k + Fingerprint(res, syn, test) + stream)
                    % Len(MetricValues)) + 1]
Report(m, res, syn, test, stream) ==
    [precision |-> Metric(m, 1, res, syn, test, stream),
     recall |-> Metric(m, 2, res, syn, test, stream),
     f1 |-> Metric(m, 0, res, syn, test, stream)]

\* results_df['AUC'].idxmax(): the row of the first occurrence of the maximum
RECURSIVE IdxMaxLastScan(_, _, _)
IdxMaxLastScan(vals, i, b) ==
    IF i > Len(vals) THEN b
    ELSE IdxMaxLastScan(vals, i + 1, IF vals[i] >= vals[b] THEN i ELSE b)
IdxMaxLast(vals) == IdxMaxLastScan(vals, 2, 1)
RECURSIVE IdxMaxScan(_, _, _)
IdxMaxScan(vals, i, b) ==
    IF i > Len(vals) THEN b
    ELSE IdxMaxScan(vals, i + 1, IF vals[i] > vals[b] THEN i ELSE b)
IdxMax(vals) == IdxMaxScan(vals, 2, 1)

\* best_model_name = results_df.loc[results_df['AUC'].idxmax(), 'Model']
BestModel(names, res) == names[IdxMax([i \in 1..Len(names) |-> res[names[i]]])]

\* model_info: the name and the metrics of results[best_model_name], the
\* time of the call, and the number of columns of the X_test it was handed
ModelInfoOfLastEvaluated(names, bestName, res, rep, now, cols) ==
    [model_name |-> bestName, training_date |-> now,
     auc |-> res[names[Len(names)]],
     precision |-> rep[names[Len(names)]].precision,
     recall |-> rep[names[Len(names)]].recall,
     f1 |-> rep[names[Len(names)]].f1,
     feature_count |-> Len(cols)]
ModelInfo(names, bestName, res, rep, now, cols) ==
    [model_name |-> bestName, training_date |-> now,
     auc |-> res[bestName],
     precision |-> rep[bestName].precision,
     recall |-> rep[bestName].recall,
     f1 |-> rep[bestName].f1,
     feature_count |-> Len(cols)]

\* ------------------------------------------------------------- main
Successor(stage) ==
    LET i == CHOOSE j \in 1..Len(StageOrder) : StageOrder[j] = stage
    IN IF i = Len(StageOrder) THEN "done" ELSE StageOrder[i + 1]
\* The try block of main(): a stage that raises ends the run in the except
\* clause, a stage that returns is followed by the next statement.
NextStageSwallowing(stage, raised) == Successor(stage)
NextStage(stage, raised) == IF raised THEN "failed" ELSE Successor(stage)

\* "except Exception as e" logs and prints str(e); main() then falls off its
\* end, as it does after the last statement of the try block.  Neither the
\* log line nor the printed line names a stage.
MainExit(raised) == "returned"
MainSurfaced(stage, raised) == "none"

Returned == Range(stagesRun) \ {failedAt}

\* ------------------------------------------------------------ the state
NoArtifacts ==
    [returned |-> {}, split |-> <<>>, bal |-> <<>>, best |-> "none", results |-> <<>>]

\* The locals of main() before its first statement
FreshRun ==
    /\ pc = "load" /\ stagesRun = <<>> /\ failedAt = "none"
    /\ df = <<>> /\ xTrain = <<>> /\ yTrain = <<>> /\ xTest = <<>> /\ yTest = <<>>
    /\ splitTest = <<>> /\ balancerArg = <<>> /\ xRes = <<>> /\ synth = <<>>
    /\ balanced = FALSE /\ attempted = <<>> /\ trained = <<>> /\ failedFit = {}
    /\ evalRows = <<>> /\ results = <<>> /\ best = "none" /\ exported = FALSE
    /\ error = "none" /\ exitStatus = "running" /\ surfaced = "none"
    /\ selectedFeatures = <<>> /\ report = <<>>
    /\ trainLog = <<>> /\ cvScores = <<>>

\* TEST_DATA_FILE, model_comparison.csv, MODEL_FILE, model_info.csv
NeverWritten == [test |-> 0, comparison |-> 0, model |-> 0, info |-> 0]

\* No call and no ranking is in progress while the pipeline runs
NoCall ==
    /\ callee = "none" /\ asScript = FALSE /\ argRows = 0
    /\ argCols = <<>> /\ argHeld = <<>> /\ outCols = <<>>
NoRanking == importance = <<>> /\ ranking = <<>>
\* Nor a derivation, a configuration change, an export run, a database call
\* or a risk binning
NoDerive == amount = <<>> /\ vRow = <<>> /\ derived = <<>>
NoConfig == config = <<>> /\ used = <<>>
NoExport == exportLog = <<>> /\ exportFeatures = <<>>
NoSql == openConns = 0 /\ sqlCalls = <<>>
NoRisk == probability = 0 /\ riskScore = "none"
NoSide == NoDerive /\ NoConfig /\ NoExport /\ NoSql /\ NoRisk

\* The cleaned file as preprocess_data writes it, and as a file that lost
\* a column on the way
Without(cols, gone) == SelectSeq(cols, LAMBDA col : col \notin gone)
ColumnGaps == {{}, {"Amount_Scaled"}, {TARGET}}

\* The score tables of the pipeline runs, as indices into AucValues
AucTables ==
    { [m \in Models |-> t[CHOOSE i \in 1..3 : ModelOrder[i] = m]] :
        t \in { <<0, 2, 1>>, <<2, 2, 0>>, <<0, 0, 0>>, <<1, 0, 2>> } }

Init ==
    /\ nLegit \in 0..MaxLegit
    /\ nFraud \in 0..MaxFraud
    /\ cleanedExists \in BOOLEAN
    /\ rawExists \in BOOLEAN
    /\ columns \in {Without(CleanedColumns, gone) : gone \in ColumnGaps}
    /\ rngStream \in 0..MaxStream
    /\ aucTab \in AucTables
    /\ clock = 0
    /\ run = 1
    /\ testFile = <<>>
    /\ modelInfo = <<>>
    /\ modelFile = "none"
    /\ writtenBy = NeverWritten
    /\ prev = NoArtifacts
    /\ FreshRun
    /\ NoCall
    /\ NoRanking
    /\ NoSide

Enter(stage, raised, exception) ==
    /\ pc = stage
    /\ stagesRun' = Append(stagesRun, stage)
    /\ pc' = NextStage(stage, raised)
    /\ failedAt' = IF raised /\ failedAt = "none" THEN stage ELSE failedAt
    /\ error' = IF raised /\ error = "none" THEN exception ELSE error
    /\ exitStatus' = IF pc' \in {"done", "failed"} THEN MainExit(raised)
                     ELSE exitStatus
    /\ surfaced' = IF pc' \in {"done", "failed"} THEN MainSurfaced(stage, raised)
                   ELSE surfaced
    /\ UNCHANGED <<fileVars, callVars, rankVars, sideVars>>

\* load_prepared_data: the cleaned file is read; when it is absent the
\* fallback imports data_cleaning and calls preprocess_data, whose global
\* upper_bound is bound only when data_cleaning runs as a script, so the
\* fallback raises and the exception is re-raised.
LoadRaises == ~cleanedExists
\* read_csv of an absent raw file, or preprocess_data's unbound upper_bound
LoadError == IF rawExists THEN "NameError" ELSE "FileNotFoundError"
Load ==
    /\ Enter("load", LoadRaises, LoadError)
    /\ df' = IF LoadRaises THEN df ELSE [i \in 1..(nLegit + nFraud) |-> i]
    /\ UNCHANGED <<selectedFeatures, report, modelFile, trainLog, cvScores, writtenBy>>
    /\ UNCHANGED <<nLegit, nFraud, cleanedExists, rngStream, aucTab, clock, run,
                   xTrain, yTrain, xTest, yTest, testFile, splitTest, balancerArg,
                   xRes, synth, balanced, attempted, trained, failedFit, evalRows,
                   results, best, modelInfo, exported, prev>>

\* prepare_train_test_split: split, then write both parts to their files
\* df.drop(columns=['Class']) raises KeyError when the column is absent
DropRaises(cols) == TARGET \notin Range(cols)
Split ==
    LET raised == DropRaises(columns) \/ SplitRaises(Len(df)) IN
    /\ Enter("split", raised, IF DropRaises(columns) THEN "KeyError" ELSE "ValueError")
    /\ UNCHANGED <<selectedFeatures, report, modelFile, trainLog, cvScores>>
    /\ IF raised
       THEN UNCHANGED <<xTrain, yTrain, xTest, yTest, testFile, splitTest, writtenBy>>
       ELSE /\ writtenBy' = [writtenBy EXCEPT !.test = run]
            /\ xTrain' = SplitTrain(df, SplitStream)
            /\ yTrain' = Labels(xTrain')
            /\ xTest' = SplitTest(df, SplitStream)
            /\ yTest' = Labels(xTest')
            /\ testFile' = xTest'
            /\ splitTest' = <<xTest', yTest'>>
    /\ UNCHANGED <<nLegit, nFraud, cleanedExists, rngStream, aucTab, clock, run,
                   df, balancerArg, xRes, synth, balanced, attempted, trained,
                   failedFit, evalRows, results, best, modelInfo, exported, prev>>

\* preprocess_features: a column selection; the rows of both parts are kept
Select ==
    /\ Enter("select", FALSE, "none")
    /\ selectedFeatures' = SelectedFeatures(DropTarget(columns))
    /\ UNCHANGED <<report, modelFile, trainLog, cvScores, writtenBy>>
    /\ UNCHANGED <<nLegit, nFraud, cleanedExists, rngStream, aucTab, clock, run,
                   df, xTrain, yTrain, xTest, yTest, testFile, splitTest,
                   balancerArg, xRes, synth, balanced, attempted, trained,
                   failedFit, evalRows, results, best, modelInfo, exported, prev>>

\* handle_imbalanced_data: undersample class 0, then SMOTE class 1
Balance ==
    LET m == Count(yTrain, 0)
        n == Count(yTrain, 1)
        under == Undersample(BalancerInput, yTrain, BalanceStream)
        raised == CountsRaise(yTrain) \/ SmoteRaises(m, n)
    IN
    /\ Enter("balance", raised, IF CountsRaise(yTrain) THEN "KeyError" ELSE "ValueError")
    /\ UNCHANGED <<selectedFeatures, report, modelFile, trainLog, cvScores, writtenBy>>
    /\ balancerArg' = BalancerInput
    /\ xRes' = IF CountsRaise(yTrain) THEN xRes ELSE under
    /\ synth' = IF raised THEN synth ELSE Smote(under, m, n, BalanceStream)
    /\ balanced' = ~raised
    /\ UNCHANGED <<nLegit, nFraud, cleanedExists, rngStream, aucTab, clock, run,
                   df, xTrain, yTrain, xTest, yTest, testFile, splitTest,
                   attempted, trained, failedFit, evalRows, results, best,
                   modelInfo, exported, prev>>

\* train_models: cross-validate, fit and persist each model in turn; an
\* exception of any of the three leaves the loop and the function.
Train ==
    \E f \in 0..Len(ModelOrder), step \in 1..(Len(TrainSteps) - 1) :
        LET dataRaises == \/ ~balanced
                          \/ CvRaises(Len(ClassRows(xRes, 0)),
                                      Len(ClassRows(xRes, 1)) + Len(synth))
            failIdx == IF dataRaises THEN 1 ELSE f
            reached == IF dataRaises THEN 1 ELSE step
            scored == IF failIdx = 0 THEN Models
                      ELSE {ModelOrder[i] : i \in 1..(failIdx - 2 + reached)}
        IN
        /\ Enter("train", failIdx # 0, IF dataRaises THEN "ValueError" ELSE "MemoryError")
        /\ trainLog' = IF failIdx = 0 THEN StepsOf(Len(ModelOrder), 0)
                       ELSE StepsOf(failIdx - 1, reached)
        /\ cvScores' = [m \in scored |-> CvScore(m, xRes, synth, FitStream)]
        /\ UNCHANGED <<selectedFeatures, report, modelFile, writtenBy>>
        /\ attempted' = IF failIdx = 0 THEN ModelOrder
                        ELSE SubSeq(ModelOrder, 1, failIdx)
        /\ trained' = IF failIdx = 0 THEN ModelOrder
                      ELSE SubSeq(ModelOrder, 1, failIdx - 1)
        /\ failedFit' = IF failIdx = 0 THEN {} ELSE {ModelOrder[failIdx]}
        /\ UNCHANGED <<nLegit, nFraud, cleanedExists, rngStream, aucTab, clock,
                       run, df, xTrain, yTrain, xTest, yTest, testFile, splitTest,
                       balancerArg, xRes, synth, balanced, evalRows, results,
                       best, modelInfo, exported, prev>>

\* evaluate_models(models, X_test, y_test): score every model, pick the best
\* by AUC, write model_info.csv.  It raises when y_test holds one class
\* (roc_auc_score) and when there is no model (idxmax of an empty column).
EvalRaises(models, y) == models = <<>> \/ AucRaises(y)
EvaluateModels(models, x, y) ==
    LET res == [m \in Range(models) |-> Score(m, xRes, synth, x, FitStream)]
        rep == [m \in Range(models) |-> Report(m, xRes, synth, x, FitStream)]
    IN
    /\ evalRows' = <<x, y>>
    /\ trainLog' = trainLog \o
          [i \in 1..(IF AucRaises(y) /\ models # <<>> THEN 1 ELSE Len(models)) |->
              <<"evaluate", models[i]>>]
    /\ IF EvalRaises(models, y)
       THEN /\ UNCHANGED <<results, report, best, modelInfo, modelFile>>
            /\ writtenBy' = IF models = <<>>
                            THEN [writtenBy EXCEPT !.comparison = run]
                            ELSE writtenBy
       ELSE /\ results' = res
            /\ report' = rep
            /\ best' = BestModel(models, res)
            /\ modelFile' = best'
            /\ writtenBy' = [writtenBy EXCEPT !.comparison = run, !.model = run,
                                              !.info = run]
            /\ modelInfo' = ModelInfo(models, best', res, rep, clock, selectedFeatures)

Evaluate ==
    /\ Enter("evaluate", EvalRaises(trained, yTest), "ValueError")
    /\ EvaluateModels(trained, xTest, yTest)
    /\ UNCHANGED <<selectedFeatures, cvScores>>
    /\ UNCHANGED <<nLegit, nFraud, cleanedExists, rngStream, aucTab, clock, run,
                   df, xTrain, yTrain, xTest, yTest, testFile, splitTest,
                   balancerArg, xRes, synth, balanced, attempted, trained,
                   failedFit, exported, prev>>

\* main() lines 305-325: the predictions of the best model on the test file
ExportRaises(cols) == ~({"Time", "Amount"} \subseteq Range(cols))
Export ==
    /\ Enter("export", ExportRaises(columns), "KeyError")
    /\ exported' = ~ExportRaises(columns)
    /\ UNCHANGED <<selectedFeatures, report, modelFile, trainLog, cvScores, writtenBy>>
    /\ UNCHANGED <<nLegit, nFraud, cleanedExists, rngStream, aucTab, clock, run,
                   df, xTrain, yTrain, xTest, yTest, testFile, splitTest,
                   balancerArg, xRes, synth, balanced, attempted, trained,
                   failedFit, evalRows, results, best, modelInfo, prev>>

\* The script is run again on the same input: the files stay, the locals go
Rerun ==
    /\ pc \in {"done", "failed"}
    /\ run < MaxRuns
    /\ run' = run + 1
    /\ clock' = clock + 1
    /\ prev' = [returned |-> Returned, split |-> <<xTrain, xTest>>,
                bal |-> <<xRes, synth>>, best |-> best, results |-> results]
    /\ pc' = "load" /\ stagesRun' = <<>> /\ failedAt' = "none"
    /\ df' = <<>> /\ xTrain' = <<>> /\ yTrain' = <<>> /\ xTest' = <<>> /\ yTest' = <<>>
    /\ splitTest' = <<>> /\ balancerArg' = <<>> /\ xRes' = <<>> /\ synth' = <<>>
    /\ balanced' = FALSE /\ attempted' = <<>> /\ trained' = <<>> /\ failedFit' = {}
    /\ evalRows' = <<>> /\ results' = <<>> /\ best' = "none" /\ exported' = FALSE
    /\ error' = "none" /\ exitStatus' = "running" /\ surfaced' = "none"
    /\ selectedFeatures' = <<>> /\ report' = <<>>
    /\ trainLog' = <<>> /\ cvScores' = <<>>
    /\ UNCHANGED <<nLegit, nFraud, cleanedExists, rngStream, aucTab, testFile,
                   modelInfo, modelFile, writtenBy, fileVars, callVars, rankVars,
                   sideVars>>

Next ==
    \/ Load \/ Split \/ Select \/ Balance \/ Train \/ Evaluate \/ Export \/ Rerun

Spec == Init /\ [][Next]_vars

\* ------------------------- evaluate_models called on any set of models
EvalInit ==
    /\ nLegit = 2 /\ nFraud = 2
    /\ cleanedExists = TRUE /\ rawExists = TRUE
    /\ columns \in {Without(CleanedColumns, gone) : gone \in {{}, {"Amount_Scaled"}}}
    /\ selectedFeatures = SelectedFeatures(DropTarget(columns))
    /\ rngStream \in 0..MaxStream
    /\ aucTab \in [Models -> 0..(Len(AucValues) - 1)]
    /\ clock = 0 /\ run = 1
    /\ testFile = <<>> /\ modelInfo = <<>> /\ modelFile = "none"
    /\ report = <<>> /\ prev = NoArtifacts
    /\ trainLog = <<>> /\ cvScores = <<>> /\ writtenBy = NeverWritten
    /\ error = "none" /\ exitStatus = "running" /\ surfaced = "none"
    /\ NoCall /\ NoRanking /\ NoSide
    /\ stagesRun = <<>> /\ failedAt = "none"
    /\ df = <<>> /\ xTrain = <<>> /\ yTrain = <<>>
    /\ xTest \in {<<1, 3>>, <<4, 2, 1>>, <<1, 2>>}
    /\ yTest = Labels(xTest)
    /\ splitTest = <<xTest, yTest>>
    /\ balancerArg = <<>> /\ xRes = <<>> /\ synth = <<>> /\ balanced = FALSE
    /\ attempted = <<>> /\ failedFit = {}
    /\ trained \in {SelectSeq(ModelOrder, LAMBDA m : m \in S) : S \in SUBSET Models}
    /\ evalRows = <<>> /\ results = <<>> /\ best = "none" /\ exported = FALSE
    /\ pc = "call"

EvalCall ==
    /\ pc = "call"
    /\ pc' = IF EvalRaises(trained, yTest) THEN "raised" ELSE "returned"
    /\ error' = IF EvalRaises(trained, yTest) THEN "ValueError" ELSE error
    /\ EvaluateModels(trained, xTest, yTest)
    /\ UNCHANGED <<nLegit, nFraud, cleanedExists, rngStream, aucTab, clock, run,
                   stagesRun, failedAt, df, xTrain, yTrain, xTest, yTest,
                   testFile, splitTest, balancerArg, xRes, synth, balanced,
                   attempted, trained, failedFit, exported, prev,
                   exitStatus, surfaced, selectedFeatures, cvScores,
                   fileVars, callVars, rankVars, sideVars>>

EvalNext == EvalCall
SpecEval == EvalInit /\ [][EvalNext]_vars

\* ------------------------------ one call of an operation on a collection
\* The operations that receive a record collection, called once on a
\* collection of argRows rows (nLegit of class 0, nFraud of class 1) with the
\* columns argCols.  argCols is the caller's collection, before and after.
MaxCallRows == 6
Callees ==
    {"preprocess_data", "prepare_train_test_split", "preprocess_features",
     "handle_imbalanced_data", "analyze_time_patterns", "export_for_sql",
     "export_for_excel", "export_for_power_bi"}
\* The operations whose behaviour on a collection without rows is modelled
TakesNoRows ==
    {"preprocess_data", "prepare_train_test_split", "preprocess_features",
     "handle_imbalanced_data", "export_for_sql"}

Has(cols, col) == col \in Range(cols)
HasAll(cols, needed) == needed \subseteq Range(cols)

\* The columns export_for_sql assigns to test_df, in order
SqlAdded ==
    <<"fraud_probability", "predicted_fraud", "is_false_positive",
      "is_false_negative", "transaction_date", "transaction_id">>
\* pd.concat([X_test, y_test], axis=1)
TestFileColumns == DropTarget(CleanedColumns) \o <<TARGET>>
\* The features the stored model was fitted on: those preprocess_features
\* selected in the training run, which are those of the full cleaned file
\* when no training run is part of the state
FittedFeatures ==
    IF selectedFeatures # <<>> THEN selectedFeatures
    ELSE SelectedFeatures(DropTarget(CleanedColumns))
\* export_for_sql's selected_features: the same filter, written out again
\* in data_export.py, over the columns of the test file
ExportFeaturesVOnly(cols) == SelectSeq(cols, LAMBDA col : StartsWithV(col))
ExportFeatures(cols) ==
    SelectSeq(cols, LAMBDA col : StartsWithV(col) \/ col \in ListedFeatures)

\* What each operation is handed by the main() that calls it
BaseColumns(op) ==
    CASE op = "preprocess_data" -> RawColumns
      [] op = "prepare_train_test_split" -> CleanedColumns
      [] op = "preprocess_features" -> DropTarget(CleanedColumns)
      [] op = "handle_imbalanced_data" -> FittedFeatures
      [] op = "analyze_time_patterns" -> CleanedColumns
      [] op = "export_for_sql" -> TestFileColumns
      [] op = "export_for_excel" -> TestFileColumns \o SqlAdded
      [] op = "export_for_power_bi" -> TestFileColumns \o SqlAdded
CallGaps == {{}, {"Time"}, {"Amount"}, {V_FEATURES[1]}, {TARGET}}

\* preprocess_data: the first statement that raises.  Time (line 77), Amount
\* (87) and V_FEATURES (91) are indexed before upper_bound is read (103);
\* nothing looks at Class or at the number of rows.
PreprocessError(cols, script) ==
    IF ~Has(cols, "Time") \/ ~Has(cols, "Amount")
          \/ ~HasAll(cols, {V_FEATURES[i] : i \in 1..Len(V_FEATURES)})
    THEN "KeyError"
    ELSE IF ~script THEN "NameError" ELSE "none"

\* export_for_sql: predict_proba raises on no rows and on other features than
\* the fitted ones; Class is read at line 63, Time at 69, amount at 86.
SqlPredictRaises(cols, rows) == rows = 0 \/ ExportFeatures(cols) # FittedFeatures
SqlError(cols, rows) ==
    IF SqlPredictRaises(cols, rows) THEN "ValueError"
    ELSE IF ~Has(cols, TARGET) \/ ~Has(cols, "Time") \/ ~Has(cols, "Amount")
    THEN "KeyError" ELSE "none"
\* how many of SqlAdded were assigned to test_df when the function ended
SqlAssigned(cols, rows) ==
    IF SqlPredictRaises(cols, rows) THEN 0
    ELSE IF ~Has(cols, TARGET) THEN 2
    ELSE IF ~Has(cols, "Time") THEN 4
    ELSE Len(SqlAdded)

\* analyze_time_patterns: df['Hour'] is assigned at line 131; Class is read at
\* 137, and hourly_counts[0], hourly_counts[1] need a row of each class.
AnalyzeError(cols) ==
    IF ~Has(cols, "Time") \/ ~Has(cols, TARGET) \/ nLegit = 0 \/ nFraud = 0
    THEN "KeyError" ELSE "none"

ExcelNeeds ==
    {"transaction_id", "transaction_date", "Amount", "fraud_probability",
     "predicted_fraud", TARGET, "is_false_positive", "is_false_negative"}
PowerBiNeeds ==
    {"transaction_date", "is_false_positive", "is_false_negative", "fraud_probability"}

\* The class of the exception the call ends with, or "none"
CallError(op, cols, rows, script) ==
    CASE op = "preprocess_data" -> PreprocessError(cols, script)
      [] op = "prepare_train_test_split" ->
            IF DropRaises(cols) THEN "KeyError"
            ELSE IF SplitRaises(rows) THEN "ValueError" ELSE "none"
      [] op = "preprocess_features" -> "none"
      [] op = "handle_imbalanced_data" ->
            IF nLegit = 0 \/ nFraud = 0 THEN "KeyError"
            ELSE IF SmoteRaises(nLegit, nFraud) THEN "ValueError" ELSE "none"
      [] op = "analyze_time_patterns" -> AnalyzeError(cols)
      [] op = "export_for_sql" -> SqlError(cols, rows)
      [] op = "export_for_excel" ->
            IF HasAll(cols, ExcelNeeds) THEN "none" ELSE "KeyError"
      [] op = "export_for_power_bi" ->
            IF HasAll(cols, PowerBiNeeds) THEN "none" ELSE "KeyError"

\* The columns of the caller's collection when the call has ended: the
\* operations that work on df.copy(), on a selection or on a new frame leave
\* them; analyze_time_patterns and export_for_sql assign to their parameter.
ArgAfter(op, cols, rows) ==
    CASE op = "analyze_time_patterns" ->
            IF Has(cols, "Time") THEN Append(cols, "Hour") ELSE cols
      [] op = "export_for_sql" -> cols \o SubSeq(SqlAdded, 1, SqlAssigned(cols, rows))
      [] OTHER -> cols

\* The columns of the collection the call returns
CallOut(op, cols) ==
    CASE op = "preprocess_data" -> cols \o DerivedColumns
      [] op = "prepare_train_test_split" -> DropTarget(cols)
      [] op = "preprocess_features" -> SelectedFeatures(cols)
      [] op = "handle_imbalanced_data" -> cols
      [] OTHER -> <<>>

\* The locals of main() and the files, which a single call does not touch
runVars ==
    <<cleanedExists, rngStream, aucTab, clock, run, stagesRun, failedAt, df,
      xTrain, yTrain, xTest, yTest, testFile, splitTest, balancerArg, xRes,
      synth, balanced, attempted, trained, failedFit, evalRows, results, best,
      modelInfo, exported, prev, exitStatus, surfaced, selectedFeatures,
      report, modelFile, trainLog, cvScores, writtenBy, fileVars>>

\* No pipeline run is in progress and none has left a file
IdlePipeline ==
    /\ cleanedExists = TRUE /\ rawExists = TRUE /\ columns = CleanedColumns
    /\ rngStream = 0 /\ aucTab = [m \in Models |-> 0]
    /\ clock = 0 /\ run = 1
    /\ testFile = <<>> /\ modelInfo = <<>> /\ modelFile = "none"
    /\ prev = NoArtifacts
    /\ stagesRun = <<>> /\ failedAt = "none"
    /\ df = <<>> /\ xTrain = <<>> /\ yTrain = <<>> /\ xTest = <<>> /\ yTest = <<>>
    /\ splitTest = <<>> /\ balancerArg = <<>> /\ xRes = <<>> /\ synth = <<>>
    /\ balanced = FALSE /\ attempted = <<>> /\ trained = <<>> /\ failedFit = {}
    /\ evalRows = <<>> /\ results = <<>> /\ best = "none" /\ exported = FALSE
    /\ exitStatus = "running" /\ surfaced = "none"
    /\ selectedFeatures = <<>> /\ report = <<>>
    /\ trainLog = <<>> /\ cvScores = <<>> /\ writtenBy = NeverWritten

CallInit ==
    /\ callee \in Callees
    /\ asScript \in BOOLEAN
    /\ nLegit \in 0..MaxCallRows
    /\ nFraud \in 0..MaxCallRows
    /\ argRows = nLegit + nFraud
    /\ callee \notin TakesNoRows => argRows > 0
    /\ callee # "preprocess_data" => ~asScript
    /\ IdlePipeline
    /\ argCols \in {Without(BaseColumns(callee), gone) : gone \in CallGaps}
    /\ argHeld = argCols
    /\ outCols = <<>>
    /\ pc = "call"
    /\ error = "none"
    /\ NoRanking
    /\ NoSide

Call ==
    LET raised == CallError(callee, argCols, argRows, asScript) IN
    /\ pc = "call"
    /\ pc' = IF raised = "none" THEN "returned" ELSE "raised"
    /\ error' = raised
    /\ argCols' = ArgAfter(callee, argCols, argRows)
    /\ outCols' = IF raised = "none" THEN CallOut(callee, argCols) ELSE outCols
    /\ UNCHANGED <<nLegit, nFraud, callee, asScript, argRows, argHeld, runVars,
                   rankVars, sideVars>>

CallNext == Call
SpecCall == CallInit /\ [][CallNext]_vars

\* --------------------------- the feature-importance table of one model
\* importance[i] is the importance of the i-th name of selected_features; a
\* ranking lists the positions 1..n in the order of the rows of the table.
MaxFeatures == 4
MaxImportance == 2
IsRanking(r, n) == Len(r) = n /\ Range(r) = 1..n
Descending(r, imp) == \A i \in 1..(Len(r) - 1) : imp[r[i]] >= imp[r[i + 1]]
\* sort_values('importance', ascending=False), kind='quicksort' by default:
\* the rows come out in descending order of the key; the algorithm is not
\* stable, so rows of equal key come out in an order that is not specified.
SortValuesDescending(imp) ==
    {r \in [1..Len(imp) -> 1..Len(imp)] : IsRanking(r, Len(imp)) /\ Descending(r, imp)}

RankInit ==
    /\ importance \in UNION {[1..n -> 0..MaxImportance] : n \in 1..MaxFeatures}
    /\ ranking = <<>>
    /\ pc = "sort"
    /\ error = "none"
    /\ nLegit = 0 /\ nFraud = 0
    /\ IdlePipeline
    /\ NoCall
    /\ NoSide

\* lines 167-172: sort the table and write it
Rank ==
    /\ pc = "sort"
    /\ ranking' \in SortValuesDescending(importance)
    /\ pc' = "written"
    /\ UNCHANGED <<nLegit, nFraud, error, importance, runVars, callVars, sideVars>>

RankNext == Rank
SpecRank == RankInit /\ [][RankNext]_vars

\* ------------------------ preprocess_data: the features it derives
\* The dataset is its Amount column, one value per row, and the components
\* V1..V28 of one of its rows.  Quantiles and deviations are held as
\* integers: a quantile times 4, the bound times 8, V_Mean as <<sum, n>>,
\* V_Std as its square times n*n*(n-1).
MaxDeriveRows == 4
MaxAmount == 2
\* DataFrame.std(axis=1) is called without ddof: pandas' default, 1
StdDdof == 1

RECURSIVE Sum(_)
Sum(s) == IF s = <<>> THEN 0 ELSE s[1] + Sum(Tail(s))
SumOfSquares(s) == Sum([i \in 1..Len(s) |-> s[i] * s[i]])

\* Series.quantile(q) with q = quarters/4: linear interpolation between the
\* order statistics around position q*(n-1)
QuantileTimes4(s, quarters) ==
    LET ordered == SortSeq(s, LAMBDA a, b : a < b)
        pos == quarters * (Len(s) - 1)
        lo == (pos \div 4) + 1
        part == pos % 4
    IN IF part = 0 THEN 4 * ordered[lo]
       ELSE 4 * ordered[lo] + part * (ordered[lo + 1] - ordered[lo])
\* upper_bound = q3 + 1.5 * iqr, of the Amount column of RAW_DATA_FILE
UpperBoundTimes8(s) ==
    2 * QuantileTimes4(s, 3) + 3 * (QuantileTimes4(s, 3) - QuantileTimes4(s, 1))
\* (processed_df['Amount'] > upper_bound).astype(int)
OutlierFlag(a, bound8) == IF 8 * a > bound8 THEN 1 ELSE 0

\* n * sum(x^2) - sum(x)^2, which is n*n times the mean squared deviation
Deviation(row) == Len(row) * SumOfSquares(row) - Sum(row) * Sum(row)
\* std(ddof)^2 = Deviation / (n * (n - ddof)), times n*n*(n-1)
StdSquaredScaled(row, ddof) == Deviation(row) * (Len(row) - 1 + ddof)

\* The rows of components the derivation is run on: the first k are `hi`,
\* the others `lo`
ComponentRows ==
    {[i \in 1..VCount |-> IF i <= k THEN lh[2] ELSE lh[1]] :
        k \in 0..VCount, lh \in {<<0, 1>>, <<-1, 2>>}}

DeriveInit ==
    /\ amount \in UNION {[1..n -> 0..MaxAmount] : n \in 1..MaxDeriveRows}
    /\ vRow \in ComponentRows
    /\ derived = <<>>
    /\ asScript \in BOOLEAN
    /\ callee = "preprocess_data"
    /\ argRows = Len(amount)
    /\ argCols = RawColumns /\ argHeld = argCols /\ outCols = <<>>
    /\ nLegit = argRows /\ nFraud = 0
    /\ pc = "call"
    /\ error = "none"
    /\ IdlePipeline
    /\ NoRanking /\ NoConfig /\ NoExport /\ NoSql /\ NoRisk

\* preprocess_data(df) on the raw file; run as a script, upper_bound was
\* computed from the Amount column of the same file before main() started
Derive ==
    LET raised == PreprocessError(argCols, asScript) IN
    /\ pc = "call"
    /\ pc' = IF raised = "none" THEN "returned" ELSE "raised"
    /\ error' = raised
    /\ outCols' = IF raised = "none" THEN CallOut(callee, argCols) ELSE outCols
    /\ derived' =
          IF raised # "none" THEN derived
          ELSE [Amount_Outlier |->
                    [i \in 1..Len(amount) |->
                        OutlierFlag(amount[i], UpperBoundTimes8(amount))],
                V_Sum |-> Sum(vRow),
                V_Mean |-> <<Sum(vRow), Len(vRow)>>,
                V_Std |-> StdSquaredScaled(vRow, StdDdof)]
    /\ UNCHANGED <<nLegit, nFraud, callee, asScript, argRows, argCols, argHeld,
                   amount, vRow, runVars, rankVars, configVars, exportVars,
                   sqlVars, riskVars>>

DeriveNext == Derive
SpecDerive == DeriveInit /\ [][DeriveNext]_vars

\* ------------------------------- config.py: the options and their users
\* config.py is edited, then the pipeline is run on a train partition of
\* nLegit majority rows: `used` is what each stage then works with.
MaxMajority == 12
OVERSAMPLING_RATIO == 50
\* feature_importance.head(10)
TopFeatures == 10
\* The values the options of config.py are given: the shipped one and others
ConfigChoices ==
    [TEST_SIZE : {TEST_SIZE, 30},
     RANDOM_STATE : {RANDOM_STATE, 7},
     UNDERSAMPLING_RATIO : {UNDERSAMPLING_RATIO, 25},
     OVERSAMPLING_RATIO : {OVERSAMPLING_RATIO, 25, 100}]

\* "from config import *", and the places that read the imported names:
\* train_test_split(test_size=TEST_SIZE, random_state=RANDOM_STATE), line 108
\* for UNDERSAMPLING_RATIO; line 114 multiplies by the literal 0.5, line 136
\* passes the literal 5 and line 176 the literal 10.  OVERSAMPLING_RATIO is
\* not read anywhere.
StageValues(cfg, m) ==
    LET under == (m * cfg.UNDERSAMPLING_RATIO) \div 100 IN
    [test_size |-> cfg.TEST_SIZE,
     seed |-> cfg.RANDOM_STATE,
     under_target |-> under,
     smote_target |-> (under * SmoteTargetRatio) \div 100,
     folds |-> CvSplits,
     top_n |-> TopFeatures]

ConfigInit ==
    /\ config \in ConfigChoices
    /\ used = <<>>
    /\ nLegit \in 0..MaxMajority
    /\ nFraud = 0
    /\ pc = "configured"
    /\ error = "none"
    /\ IdlePipeline
    /\ NoCall /\ NoRanking /\ NoDerive /\ NoExport /\ NoSql /\ NoRisk

RunConfigured ==
    /\ pc = "configured"
    /\ pc' = "ran"
    /\ used' = StageValues(config, nLegit)
    /\ UNCHANGED <<nLegit, nFraud, error, config, runVars, callVars, rankVars,
                   deriveVars, exportVars, sqlVars, riskVars>>

ConfigNext == RunConfigured
SpecConfig == ConfigInit /\ [][ConfigNext]_vars

\* ------------------------------------------------- data_export.main()
\* The export pipeline run on the files a training run left: the test file
\* has the columns of the cleaned file with Class moved to the end, and
\* nLegit + nFraud rows; test_df is held in argCols once it is loaded.
MaxExportRows == 3
ExportOrderExcelFirst ==
    <<"load_model_and_test_data", "export_for_excel", "export_for_sql",
      "export_for_power_bi", "write_export_summary">>
\* The statements of the try block of main(), lines 268-283, in order;
\* create_export_directory (os.makedirs, exist_ok=True) between the first
\* two touches no frame and no file read here
ExportOrder ==
    <<"load_model_and_test_data", "export_for_sql", "export_for_excel",
      "export_for_power_bi", "write_export_summary">>
ExportSuccessor(step) ==
    LET i == CHOOSE j \in 1..Len(ExportOrder) : ExportOrder[j] = step
    IN IF i = Len(ExportOrder) THEN "done" ELSE ExportOrder[i + 1]
\* train_df/test_df = pd.concat([X, y], axis=1), written with to_csv
TestFileColumnsOf(cols) == DropTarget(cols) \o <<TARGET>>
ExportGaps == {{}, {"Amount_Scaled"}, {"Time"}, {"V_Std", "Hour_Sin"}}

\* One statement of the try block: it returns and the next one follows, or
\* it raises and the except clause of main() ends the run
ExportEnter(step, raised) ==
    /\ pc = step
    /\ exportLog' = Append(exportLog, <<step, raised>>)
    /\ pc' = IF raised = "none" THEN ExportSuccessor(step) ELSE "failed"
    /\ error' = raised
    /\ UNCHANGED <<nLegit, nFraud, callee, asScript, argRows, outCols, runVars,
                   rankVars, deriveVars, configVars, sqlVars, riskVars>>

ExportInit ==
    /\ columns \in {Without(CleanedColumns, gone) : gone \in ExportGaps}
    /\ selectedFeatures = SelectedFeatures(DropTarget(columns))
    /\ modelFile \in Models \cup {"none"}
    /\ writtenBy \in {[NeverWritten EXCEPT !.test = t, !.model = m, !.info = m,
                                           !.comparison = m] :
                        t \in {0, 1}, m \in {0, 1}}
    /\ writtenBy.model = 1 <=> modelFile # "none"
    /\ writtenBy.model = 1 => writtenBy.test = 1
    /\ nLegit \in 0..MaxExportRows
    /\ nFraud \in 0..MaxExportRows
    /\ writtenBy.test = 0 => nLegit = 0 /\ nFraud = 0
    /\ writtenBy.test = 1 => nLegit + nFraud > 0
    /\ writtenBy.model = 1 => nLegit > 0 /\ nFraud > 0
    /\ argRows = nLegit + nFraud
    /\ callee = "none" /\ asScript = FALSE
    /\ argCols = <<>> /\ argHeld = <<>> /\ outCols = <<>>
    /\ exportLog = <<>> /\ exportFeatures = <<>>
    /\ pc = ExportOrder[1]
    /\ error = "none"
    /\ cleanedExists = TRUE /\ rawExists = TRUE
    /\ rngStream = 0 /\ aucTab = [m \in Models |-> 0]
    /\ clock = 0 /\ run = 1
    /\ testFile = [i \in 1..argRows |-> i] /\ modelInfo = <<>>
    /\ prev = NoArtifacts
    /\ stagesRun = <<>> /\ failedAt = "none"
    /\ df = <<>> /\ xTrain = <<>> /\ yTrain = <<>> /\ xTest = <<>> /\ yTest = <<>>
    /\ splitTest = <<>> /\ balancerArg = <<>> /\ xRes = <<>> /\ synth = <<>>
    /\ balanced = FALSE /\ attempted = <<>> /\ trained = <<>> /\ failedFit = {}
    /\ evalRows = <<>> /\ results = <<>> /\ best = "none" /\ exported = FALSE
    /\ exitStatus = "running" /\ surfaced = "none"
    /\ report = <<>> /\ trainLog = <<>> /\ cvScores = <<>>
    /\ NoRanking /\ NoDerive /\ NoConfig /\ NoSql /\ NoRisk

\* load_model_and_test_data: joblib.load(MODEL_FILE), read_csv(TEST_DATA_FILE)
LoadModelAndTest ==
    LET raised == IF writtenBy.model = 0 \/ writtenBy.test = 0
                  THEN "FileNotFoundError" ELSE "none"
    IN
    /\ ExportEnter("load_model_and_test_data", raised)
    /\ argCols' = IF raised = "none" THEN TestFileColumnsOf(columns) ELSE argCols
    /\ argHeld' = argCols'
    /\ UNCHANGED exportFeatures

\* export_for_sql(model, test_df, export_dir); its to_csv calls can fail
\* when every column has been assigned
ExportSql ==
    \E written \in BOOLEAN :
        LET raised == IF SqlError(argCols, argRows) # "none"
                      THEN SqlError(argCols, argRows)
                      ELSE IF written THEN "none" ELSE "OSError"
        IN
        /\ ExportEnter("export_for_sql", raised)
        /\ exportFeatures' = ExportFeatures(argCols)
        /\ argCols' = ArgAfter("export_for_sql", argCols, argRows)
        /\ UNCHANGED argHeld

\* export_for_excel(test_df, export_dir)
ExportExcel ==
    /\ ExportEnter("export_for_excel",
                   CallError("export_for_excel", argCols, argRows, FALSE))
    /\ UNCHANGED <<argCols, argHeld, exportFeatures>>

\* export_for_power_bi(test_df, export_dir)
ExportPowerBi ==
    /\ ExportEnter("export_for_power_bi",
                   CallError("export_for_power_bi", argCols, argRows, FALSE))
    /\ UNCHANGED <<argCols, argHeld, exportFeatures>>

\* write_export_summary(sql_exports, excel_exports, powerbi_export, export_dir)
WriteSummary ==
    /\ ExportEnter("write_export_summary", "none")
    /\ UNCHANGED <<argCols, argHeld, exportFeatures>>

ExportNext ==
    \/ LoadModelAndTest \/ ExportSql \/ ExportExcel \/ ExportPowerBi \/ WriteSummary
SpecExport == ExportInit /\ [][ExportNext]_vars

\* ------------------------------------------------------ sql_connector
\* Calls of the four functions that open a connection. openConns counts the
\* connections pyodbc.connect returned that no conn.close() has closed;
\* sqlCalls records each call as <<function, how it ended, what it returned>>.
MaxSqlCalls == 3
SqlFunctions ==
    {"test_connection", "execute_query", "execute_stored_procedure",
     "insert_transaction"}
\* How a call can end: pyodbc.connect raises, a statement between connect
\* and close raises (read_sql, cursor.execute, fetchall, commit, a missing
\* key of transaction_data), or the function reaches its return.
\* test_connection has only logging and print between connect and close.
SqlOutcomes(fn) ==
    IF fn = "test_connection" THEN {"connect_raises", "returns"}
    ELSE {"connect_raises", "statement_raises", "returns"}
\* The value handed back: the except clauses return False or an empty frame
SqlReturned(fn, outcome) ==
    IF fn \in {"test_connection", "insert_transaction"}
    THEN (IF outcome = "returns" THEN "True" ELSE "False")
    ELSE (IF outcome = "returns" THEN "frame" ELSE "empty frame")
\* conn.close() is a statement of the try body after the last statement
\* that can raise, and no function has a finally clause
Closes(outcome) == outcome = "returns"

\* One call. A connection the function did not close is left to the
\* interpreter: it may be reclaimed when the frame is dropped, or stay open.
SqlCall(fn) ==
    \E outcome \in SqlOutcomes(fn), reclaimed \in BOOLEAN :
        /\ Len(sqlCalls) < MaxSqlCalls
        /\ sqlCalls' = Append(sqlCalls, <<fn, outcome, SqlReturned(fn, outcome)>>)
        /\ openConns' =
              IF outcome = "connect_raises" \/ Closes(outcome) \/ reclaimed
              THEN openConns ELSE openConns + 1
        /\ UNCHANGED <<nLegit, nFraud, pc, error, runVars, callVars, rankVars,
                       deriveVars, configVars, exportVars, riskVars>>

TestConnection == SqlCall("test_connection")
ExecuteQuery == SqlCall("execute_query")
ExecuteStoredProcedure == SqlCall("execute_stored_procedure")
InsertTransaction == SqlCall("insert_transaction")

SqlInit ==
    /\ nLegit = 0 /\ nFraud = 0
    /\ pc = "idle" /\ error = "none"
    /\ IdlePipeline /\ NoCall /\ NoRanking /\ NoSide
SqlNext ==
    \/ TestConnection \/ ExecuteQuery \/ ExecuteStoredProcedure \/ InsertTransaction
SpecSql == SqlInit /\ [][SqlNext]_vars

\* ------------------------------------------- export_for_power_bi: Risk_Score
\* pd.cut(fraud_probability, bins=[0, 0.2, 0.4, 0.6, 0.8, 1.0], labels=...)
\* with probabilities in percent. The bins are closed on the right and
\* include_lowest is left at False, so the first bin is (0, 0.2] and a value
\* in no bin gets NaN.
RiskBins == <<0, 20, 40, 60, 80, 100>>
RiskLabels == <<"Very Low", "Low", "Medium", "High", "Very High">>
Cut(p) ==
    IF \E i \in 1..Len(RiskLabels) : RiskBins[i] < p /\ p <= RiskBins[i + 1]
    THEN RiskLabels[CHOOSE i \in 1..Len(RiskLabels) :
          RiskBins[i] < p /\ p <= RiskBins[i + 1]]
    ELSE "NaN"

RiskInit ==
    /\ probability \in 0..RiskBins[Len(RiskBins)]
    /\ riskScore = "none"
    /\ nLegit = 0 /\ nFraud = 0
    /\ pc = "loaded" /\ error = "none"
    /\ IdlePipeline /\ NoCall /\ NoRanking
    /\ NoDerive /\ NoConfig /\ NoExport /\ NoSql
\* powerbi_df['Risk_Score'] = pd.cut(...)
AssignRiskScore ==
    /\ pc = "loaded"
    /\ pc' = "scored"
    /\ riskScore' = Cut(probability)
    /\ UNCHANGED <<nLegit, nFraud, error, probability, runVars, callVars,
                   rankVars, deriveVars, configVars, exportVars, sqlVars>>
RiskNext == AssignRiskScore
SpecRisk == RiskInit /\ [][RiskNext]_vars

\* ================================================================ claims
Pos(m) == CHOOSE i \in 1..Len(ModelOrder) : ModelOrder[i] = m
Abs(a) == IF a < 0 THEN -a ELSE a
TrainMajority == Count(yTrain, 0)
TrainMinority == Count(yTrain, 1)
BalancedMajority == Len(ClassRows(xRes, 0))
BalancedMinority == Len(ClassRows(xRes, 1)) + Len(synth)
SynthParents == UNION {{synth[i][1], synth[i][2]} : i \in 1..Len(synth)}

\* C1: evaluate_models selects a model of highest test AUC, and among the
\* models sharing the highest AUC the first in the enumeration order
\* logistic_regression, random_forest, gradient_boosting, for every
\* non-empty subset of the three and every assignment of AUCs; AUCs
\* [90, 95, 93] select random_forest and [95, 95, 90] logistic_regression.
C1_SelectsFirstHighestAuc ==
    pc = "returned" =>
        /\ best \in Range(trained)
        /\ \A m \in Range(trained) : results[m] <= results[best]
        /\ \A m \in Range(trained) : Pos(m) < Pos(best) => results[m] < results[best]
        /\ (trained = ModelOrder /\ [i \in 1..3 |-> results[ModelOrder[i]]] = <<90, 95, 93>>)
              => best = "random_forest"
        /\ (trained = ModelOrder /\ [i \in 1..3 |-> results[ModelOrder[i]]] = <<95, 95, 90>>)
              => best = "logistic_regression"
C1_Witness ==
    /\ pc = "returned" /\ trained = ModelOrder
    /\ [i \in 1..3 |-> results[ModelOrder[i]]] = <<95, 95, 90>>
    /\ best = "logistic_regression"

\* C2: from the return of the split to the end of the run the test
\* partition is what the split produced, evaluate_models is handed exactly
\* those rows and labels, the balancer receives train rows only, and no row
\* of the balanced training set, retained or synthetic, comes from the test
\* partition.
C2_TestPartitionUntouched ==
    /\ "split" \in Returned => <<xTest, yTest>> = splitTest
    /\ evalRows # <<>> => evalRows = splitTest
    /\ "balance" \in Range(stagesRun) =>
          /\ Range(balancerArg) \subseteq Range(xTrain)
          /\ Range(xRes) \cap Range(xTest) = {}
          /\ SynthParents \cap Range(xTest) = {}
C2_Witness ==
    /\ pc = "done" /\ synth # <<>> /\ evalRows = splitTest /\ Len(xTest) > 2

\* C3: a model whose cross-validation or fit raises is only left out: the
\* other model families are still trained, and the trained ones are
\* evaluated and one of them is selected.
C3_FitFailureIsolated ==
    (pc \in {"done", "failed"} /\ failedFit # {} /\ balanced
        /\ ~CvRaises(BalancedMajority, BalancedMinority)) =>
        /\ Range(attempted) = Models
        /\ (Range(trained) # {} /\ ~AucRaises(yTest)) => best \in Range(trained)

\* C4: when handle_imbalanced_data returns, the majority count is
\* floor(0.5 * M), the minority count is floor(0.5 * floor(0.5 * M)) and the
\* minority count is at least the minority count N it was given.
C4_BalancedCounts ==
    balanced =>
        /\ BalancedMajority = TrainMajority \div 2
        /\ BalancedMinority = (TrainMajority \div 2) \div 2
        /\ BalancedMinority >= TrainMinority
C4_Witness ==
    /\ balanced /\ synth # <<>> /\ TrainMajority > 4 * TrainMinority
    /\ BalancedMinority > TrainMinority

\* C5: the undersampling stage keeps int(UNDERSAMPLING_RATIO * M) majority
\* rows, each a distinct row of the train partition, and keeps every
\* minority row exactly once.
C5_UndersampleStage ==
    ("balance" \in Range(stagesRun) /\ ~CountsRaise(yTrain)) =>
        /\ Len(ClassRows(xRes, 0)) = (UNDERSAMPLING_RATIO * TrainMajority) \div 100
        /\ NoDup(xRes)
        /\ Range(xRes) \subseteq Range(xTrain)
        /\ Range(ClassRows(xRes, 1)) = Range(ClassRows(xTrain, 1))
        /\ Len(ClassRows(xRes, 1)) = TrainMinority
C5_Witness ==
    /\ "balance" \in Range(stagesRun) /\ ~CountsRaise(yTrain)
    /\ Len(ClassRows(xRes, 0)) >= 3 /\ TrainMajority % 2 = 1 /\ TrainMinority >= 2

\* C6: for every train partition holding both classes with M > N the
\* balancer returns, and its result has a majority:minority ratio less
\* extreme than M:N.
C6_AlwaysLessExtreme ==
    ("balance" \in Range(stagesRun) /\ TrainMinority >= 1
        /\ TrainMajority > TrainMinority) =>
        /\ balanced
        /\ BalancedMajority * TrainMinority < TrainMajority * BalancedMinority

\* C7: the train and test partitions the split returns are disjoint, hold no
\* row twice, together hold every row of the input, and the test partition
\* holds ceil(0.2 * n) of the n rows.
C7_SplitPartitions ==
    "split" \in Returned =>
        /\ Range(xTrain) \cap Range(xTest) = {}
        /\ Range(xTrain) \cup Range(xTest) = Range(df)
        /\ NoDup(xTrain) /\ NoDup(xTest)
        /\ Len(xTrain) + Len(xTest) = Len(df)
        /\ 100 * Len(xTest) >= TEST_SIZE * Len(df)
        /\ 100 * Len(xTest) < TEST_SIZE * Len(df) + 100
C7_Witness ==
    /\ "split" \in Returned /\ Len(df) % 5 # 0
    /\ Count(yTest, 0) > 0 /\ Count(yTest, 1) > 0 /\ Len(xTest) >= 3

\* C8 as stated: in both partitions the fraud fraction is within one
\* percentage point of the fraud fraction of the whole input.
C8_WithinOnePoint ==
    "split" \in Returned =>
        /\ 100 * Abs(Count(yTrain, 1) * Len(df) - nFraud * Len(xTrain))
              <= Len(xTrain) * Len(df)
        /\ 100 * Abs(Count(yTest, 1) * Len(df) - nFraud * Len(xTest))
              <= Len(xTest) * Len(df)
\* C8 as amended: in both partitions the number of fraud rows is less than
\* one row away from the partition's size times the fraud fraction of the
\* whole input.
C8_WithinOneRow ==
    "split" \in Returned =>
        /\ Abs(Count(yTrain, 1) * Len(df) - nFraud * Len(xTrain)) < Len(df)
        /\ Abs(Count(yTest, 1) * Len(df) - nFraud * Len(xTest)) < Len(df)
C8_Witness ==
    /\ "split" \in Returned /\ nFraud >= 2 /\ nLegit >= 2
    /\ (nFraud * Len(xTrain)) % Len(df) # 0
    /\ Count(yTest, 1) > 0

C10_StagesInOrder ==
    /\ stagesRun = SubSeq(StageOrder, 1, Len(stagesRun))
    /\ failedAt # "none" =>
          pc = "failed" /\ stagesRun # <<>> /\ stagesRun[Len(stagesRun)] = failedAt
    /\ (failedAt = "none" /\ pc # "done") =>
          Len(stagesRun) < Len(StageOrder) /\ pc = StageOrder[Len(stagesRun) + 1]
    /\ pc = "done" => stagesRun = StageOrder /\ failedAt = "none"
C10_Witness ==
    /\ pc = "failed" /\ failedAt = "train" /\ attempted = <<"logistic_regression">>
    /\ stagesRun = SubSeq(StageOrder, 1, 5) /\ ~exported /\ best = "none"

\* C11: the metadata record evaluate_models writes describes the model it
\* selected: model_name is the selected name, the four metrics are that
\* model's evaluation result, feature_count is the length of the selected
\* feature list used for training.
C11_MetadataDescribesSelected ==
    "evaluate" \in Returned =>
        /\ modelInfo.model_name = best
        /\ modelInfo.auc = results[best]
        /\ modelInfo.precision = report[best].precision
        /\ modelInfo.recall = report[best].recall
        /\ modelInfo.f1 = report[best].f1
        /\ modelInfo.feature_count = Len(selectedFeatures)
C11_Witness ==
    /\ "evaluate" \in Returned /\ trained = ModelOrder
    /\ modelInfo.model_name = "random_forest"
    /\ results["gradient_boosting"] # results["random_forest"]
    /\ modelInfo.feature_count = Len(SelectedFeatures(CleanedColumns)) - 1

\* C12: a stage that fails aborts the run and the failure reaches the caller
\* of main() as an error carrying the name of the failing stage; main() does
\* not return normally after such a failure.
C12_FailureSurfaced ==
    failedAt # "none" =>
        /\ pc = "failed"
        /\ exitStatus = "raised"
        /\ surfaced = failedAt

\* C13: train_models fails with AllModelsFailedError exactly when none of the
\* three model families trained; when at least one trained, the run goes on
\* to evaluation with the trained ones.
C13_FailsIffNoneTrained ==
    "train" \in Range(stagesRun) =>
        /\ failedAt = "train" <=> trained = <<>>
        /\ failedAt = "train" => error = "AllModelsFailedError"
        /\ trained # <<>> => pc \in {"evaluate", "export", "done", "failed"}

\* C14: evaluate_models called with an empty model set fails with
\* NoModelsToEvaluateError and writes neither the selected-model file nor the
\* metadata record.
C14_EmptyModelSetRejected ==
    (trained = <<>> /\ pc # "call") =>
        /\ pc = "raised"
        /\ error = "NoModelsToEvaluateError"
        /\ modelFile = "none"
        /\ modelInfo = <<>>

\* C15: prepare_train_test_split fails with InsufficientSamplesError whenever
\* either class has fewer than two rows, and then writes neither the train
\* nor the test file.
C15_TooFewSamplesRejected ==
    (/\ run = 1 /\ "split" \in Range(stagesRun) /\ TARGET \in Range(columns)
     /\ (nLegit < 2 \/ nFraud < 2)) =>
        /\ failedAt = "split"
        /\ error = "InsufficientSamplesError"
        /\ testFile = <<>>

\* C16: handle_imbalanced_data fails with DegenerateClassError whenever the
\* minority class has fewer same-class neighbours than SMOTE's k_neighbors,
\* and never returns a balanced set in that case.
C16_DegenerateMinorityRejected ==
    ("balance" \in Range(stagesRun) /\ TrainMinority - 1 < SmoteKNeighbors) =>
        /\ failedAt = "balance"
        /\ error = "DegenerateClassError"
        /\ ~balanced

\* The feature columns preprocess_features looks for
ExpectedFeatures == {V_FEATURES[i] : i \in 1..Len(V_FEATURES)} \cup ListedFeatures

\* C18: no stage continues past a schema mismatch: when the dataset handed
\* to feature selection lacks one of the expected feature columns, the run
\* halts at that stage.
C18_SchemaMismatchHalts ==
    ("select" \in Range(stagesRun) /\ ~(ExpectedFeatures \subseteq Range(columns))) =>
        /\ failedAt = "select"
        /\ pc = "failed"

\* C17: preprocess_data rejects invalid input with a typed error:
\* DataFormatError when one of the expected columns Time, Amount, V1..V28,
\* Class is absent, EmptyDatasetError when the dataset has no rows.
C17_InvalidInputRejected ==
    (callee = "preprocess_data" /\ pc # "call") =>
        /\ ~HasAll(argHeld, Range(RawColumns)) =>
              pc = "raised" /\ error = "DataFormatError"
        /\ (HasAll(argHeld, Range(RawColumns)) /\ argRows = 0) =>
              pc = "raised" /\ error = "EmptyDatasetError"

\* C19: no operation changes the record collection it receives in place:
\* when preprocess_data, prepare_train_test_split, preprocess_features,
\* handle_imbalanced_data, analyze_time_patterns, export_for_sql,
\* export_for_excel or export_for_power_bi has ended, the caller's collection
\* has the columns it had at the call.
C19_ArgumentUntouched ==
    (callee \in Callees /\ pc # "call") => argCols = argHeld

\* C20: the persisted feature-importance table is sorted by importance in
\* descending order, and features of equal importance keep the order they
\* have in the feature list.
C20_SortedTiesInListOrder ==
    pc = "written" =>
        /\ Descending(ranking, importance)
        /\ \A i, j \in 1..Len(ranking) :
              (i < j /\ importance[ranking[i]] = importance[ranking[j]]) =>
                  ranking[i] < ranking[j]

\* The position of a step of a model in the log, 0 when it never started
LogIndex(step, m) ==
    IF \E i \in 1..Len(trainLog) : trainLog[i] = <<step, m>>
    THEN CHOOSE i \in 1..Len(trainLog) : trainLog[i] = <<step, m>>
    ELSE 0

\* C24: for each classifier, in the enumeration order, train_models runs the
\* cross-validation, then the fit, then persists the model; a model is
\* persisted only after its fit succeeded; every model is evaluated after all
\* of this; the selected model is the one of highest test AUC whatever the
\* cross-validation scores are.
C24_TrainOrder ==
    /\ \A m \in Models :
          /\ LogIndex("fit", m) # 0 =>
                LogIndex("cv", m) # 0 /\ LogIndex("cv", m) < LogIndex("fit", m)
          /\ LogIndex("dump", m) # 0 =>
                /\ LogIndex("fit", m) # 0 /\ LogIndex("fit", m) < LogIndex("dump", m)
                /\ m \in Range(trained)
          /\ LogIndex("evaluate", m) # 0 =>
                \A i \in 1..Len(trainLog) :
                    trainLog[i][1] # "evaluate" => i < LogIndex("evaluate", m)
    /\ \A i, j \in 1..Len(trainLog) :
          (/\ i < j /\ trainLog[i][1] # "evaluate" /\ trainLog[j][1] # "evaluate") =>
              Pos(trainLog[i][2]) <= Pos(trainLog[j][2])
    /\ "evaluate" \in Returned =>
          \A m \in Range(trained) : results[best] >= results[m]
C24_Witness ==
    /\ pc = "done" /\ trained = ModelOrder
    /\ Len(trainLog) = Len(TrainSteps) * Len(ModelOrder) + Len(ModelOrder)
    /\ \E m \in Models : cvScores[m] > cvScores[best] /\ results[m] < results[best]

\* C25: when the cleaned file is absent and the raw file is present,
\* load_prepared_data derives the cleaned data from the raw file and
\* returns it, and the run goes on to the split stage.
C25_FallbackDerives ==
    ("load" \in Range(stagesRun) /\ ~cleanedExists /\ rawExists) =>
        /\ failedAt # "load"
        /\ pc # "failed" => "split" \in Range(stagesRun) \/ pc = "split"

\* C26: when a run has ended, successfully or not, the stored model, the
\* metadata record and the comparison table were written by the same run as
\* the test file that is on disk.
C26_ArtifactsOfOneRun ==
    (pc \in {"done", "failed"} /\ modelFile # "none") =>
        /\ writtenBy.model = writtenBy.test
        /\ writtenBy.info = writtenBy.test
        /\ writtenBy.comparison = writtenBy.test

\* C21: for every dataset handed to preprocess_data, the call returns and
\* the Amount_Outlier flag of each row is 1 exactly when the row's Amount
\* exceeds Q3 + 1.5*(Q3 - Q1) of the Amount column of that dataset, whether
\* data_cleaning runs as a script or is imported.
C21_OutlierFlagOfDataset ==
    (callee = "preprocess_data" /\ amount # <<>> /\ pc # "call") =>
        /\ pc = "returned"
        /\ derived # <<>>
        /\ \A i \in 1..Len(amount) :
              derived.Amount_Outlier[i] = 1 <=>
                  8 * amount[i] > UpperBoundTimes8(amount)

\* C22: V_Std of a row is the population standard deviation (divisor 28) of
\* its 28 components, V_Sum is their sum and V_Mean their mean.
C22_PopulationStd ==
    (callee = "preprocess_data" /\ pc = "returned" /\ derived # <<>>) =>
        /\ derived.V_Sum = Sum(vRow)
        /\ derived.V_Mean[1] = Sum(vRow) /\ derived.V_Mean[2] = VCount
        /\ derived.V_Std = Deviation(vRow) * (VCount - 1)

\* C23: every option of the configuration governs its stage: the split uses
\* the configured test fraction and seed, the undersampler the configured
\* ratio, and the minority target of the oversampling stage is
\* OVERSAMPLING_RATIO times the majority count left by the undersampler.
C23_OptionsGovern ==
    used # <<>> =>
        /\ used.test_size = config.TEST_SIZE
        /\ used.seed = config.RANDOM_STATE
        /\ used.under_target = (nLegit * config.UNDERSAMPLING_RATIO) \div 100
        /\ used.smote_target =
              (used.under_target * config.OVERSAMPLING_RATIO) \div 100

\* C27: the feature list export_for_sql computes from the persisted test file
\* is the list preprocess_features selected at training time, the same
\* columns in the same order, whichever columns the cleaned dataset has.
C27_ExportFeaturesAreTrained ==
    (\E i \in 1..Len(exportLog) : exportLog[i][1] = "export_for_sql")
        => exportFeatures = selectedFeatures
C27_Witness ==
    /\ pc = "done"
    /\ ~Has(columns, "Amount_Scaled")
    /\ exportFeatures # <<>>
    /\ exportFeatures = selectedFeatures

\* C28: export_for_excel, export_for_power_bi and write_export_summary run
\* only after export_for_sql returned without an exception on the same
\* frame, the six columns export_for_sql assigns are in the frame whenever
\* the two exports run, and nothing runs after a failed export_for_sql.
C28_ExportsFollowSql ==
    \A i \in 1..Len(exportLog) :
        LET step == exportLog[i][1] IN
        /\ step \in {"export_for_excel", "export_for_power_bi", "write_export_summary"}
              => \E j \in 1..(i - 1) : exportLog[j] = <<"export_for_sql", "none">>
        /\ step \in {"export_for_excel", "export_for_power_bi"}
              => /\ HasAll(argCols, Range(SqlAdded))
                 /\ exportLog[i][2] # "KeyError"
        /\ (step = "export_for_sql" /\ exportLog[i][2] # "none")
              => i = Len(exportLog)
C28_Witness ==
    /\ pc = "done"
    /\ Len(exportLog) = Len(ExportOrder)
    /\ exportLog[3] = <<"export_for_excel", "none">>
    /\ exportLog[4] = <<"export_for_power_bi", "none">>
    /\ HasAll(argCols, Range(SqlAdded))
    /\ argHeld = TestFileColumnsOf(columns)

\* C29: every connection opened by test_connection, execute_query,
\* execute_stored_procedure and insert_transaction is closed when the
\* function returns, on the success path and on every error path, so no
\* sequence of calls leaves a connection open.
C29_NoConnectionLeftOpen == openConns = 0

\* C30: export_for_power_bi gives every fraud probability in [0, 1] exactly
\* one of the five Risk_Score labels, the endpoints 0 and 1 and the
\* boundaries 0.2, 0.4, 0.6, 0.8 included.
C30_EveryProbabilityLabelled == pc = "scored" => riskScore \in Range(RiskLabels)
====
